---- MODULE Spec2Model ----
(***************************************************************************)
(* Model of full_cleaniness_validation.py: the metric functions and the    *)
(* validate_docs report pass.                                              *)
(*                                                                         *)
(* A text is a run-length encoded string: a sequence of runs [ch, n] that  *)
(* stands for n copies of the character with code point ch.  Texts are     *)
(* kept canonical (n >= 1, neighbouring runs differ in ch), so two texts   *)
(* are the same Python string exactly when their run sequences are equal.  *)
(* page_content is [none, text]: none = TRUE is Python's None.             *)
(* A printed line is a record [stage, kind, val, idxs, txt].               *)
(***************************************************************************)
EXTENDS Integers, Sequences, FiniteSets, TLC

VARIABLES docs, pc, out, err, lengths, idx,
          ligature_hits, replacement_hits, hyphen_break_hits,
          non_ascii_heavy_hits, call

vars == <<docs, pc, out, err, lengths, idx, ligature_hits, replacement_hits,
          hyphen_break_hits, non_ascii_heavy_hits, call>>

(* ---------- bounds of the input families ---------- *)

MaxDocs == 4
MaxPatternDocs == 11
MaxRep == 5
MaxAscii == 19
MaxNonAscii == 2

(* ---------- literals of the program ---------- *)

LF == 10
SPACE == 32
HYPHEN == 45
LIG_FI == 64257
LIG_FL == 64258
REPLACEMENT_CHAR == 65533
ASCII_MAX == 127
VERY_SHORT == 50
VERY_LONG == 8000
NEAR_EMPTY == 5
REPEAT_MIN == 3
TOP_REPEATED == 5
PREVIEW_LEN == 120
EXAMPLES == 10
MANY_NEWLINES == 30
LONG_TEXT == 300

\* string.punctuation: !"#$%&'()*+,-./  :;<=>?@  [\]^_`  {|}~
Punctuation == (33..47) \cup (58..64) \cup (91..96) \cup (123..126)

\* thresholds that are float literals in the source, as exact fractions
LowEntropy == [num |-> 5, den |-> 2]
DefaultThresholdRatio == [num |-> 1, den |-> 20]
LowPunct == [num |-> 1, den |-> 1000]

(* ---------- strings ---------- *)

Run(c, k) == [ch |-> c, n |-> k]

None == [none |-> TRUE, text |-> <<>>]

Str(t) == [none |-> FALSE, text |-> t]

Document(content) == [page_content |-> content]

\* d.page_content or ""
OrEmpty(content) == IF content.none THEN <<>> ELSE content.text

RECURSIVE StrLen(_)
StrLen(t) == IF t = <<>> THEN 0 ELSE Head(t).n + StrLen(Tail(t))

\* sum(1 for c in text if ord(c) in S)
RECURSIVE CountIn(_, _)
CountIn(t, S) ==
    IF t = <<>> THEN 0
    ELSE (IF Head(t).ch \in S THEN Head(t).n ELSE 0) + CountIn(Tail(t), S)

CharsOf(t) == {t[i].ch : i \in DOMAIN t}

\* the first k characters of t
RECURSIVE Slice(_, _)
Slice(t, k) ==
    IF t = <<>> \/ k <= 0 THEN <<>>
    ELSE IF Head(t).n >= k THEN <<Run(Head(t).ch, k)>>
    ELSE <<Head(t)>> \o Slice(Tail(t), k - Head(t).n)

\* append a run, merging it into the last run when the character is the same
AppendRun(t, r) ==
    IF t # <<>> /\ t[Len(t)].ch = r.ch
    THEN [t EXCEPT ![Len(t)] = Run(r.ch, t[Len(t)].n + r.n)]
    ELSE Append(t, r)

\* txt.replace(a, b) for single characters a, b
RECURSIVE ReplaceFrom(_, _, _, _)
ReplaceFrom(acc, t, a, b) ==
    IF t = <<>> THEN acc
    ELSE ReplaceFrom(AppendRun(acc, Run(IF Head(t).ch = a THEN b ELSE Head(t).ch,
                                        Head(t).n)),
                     Tail(t), a, b)

Replace(t, a, b) == ReplaceFrom(<<>>, t, a, b)

(* ---------- math.log2 ---------- *)

RECURSIVE FloorLog2(_)
FloorLog2(x) == IF x < 2 THEN 0 ELSE 1 + FloorLog2(x \div 2)

RECURSIVE Pow2(_)
Pow2(k) == IF k = 0 THEN 1 ELSE 2 * Pow2(k - 1)

\* the first k binary digits of the fraction of log2(m / 2^14), for a
\* mantissa m in [2^14, 2^15), by repeated squaring
RECURSIVE FracDigits(_, _)
FracDigits(m, k) ==
    IF k = 0 THEN 0
    ELSE LET sq == (m * m) \div 16384
         IN  IF sq >= 32768
             THEN Pow2(k - 1) + FracDigits(sq \div 2, k - 1)
             ELSE FracDigits(sq, k - 1)

\* log2(x) in units of 1/256 bit, rounded down, for 1 <= x < 2^14; exact on
\* powers of two
Log2Digits(x) ==
    256 * FloorLog2(x) + FracDigits(x * Pow2(14 - FloorLog2(x)), 8)

\* <<Log2Digits(lo), ..., Log2Digits(hi)>>
RECURSIVE Log2Range(_, _)
Log2Range(lo, hi) ==
    IF lo = hi THEN <<Log2Digits(lo)>>
    ELSE Log2Range(lo, (lo + hi) \div 2) \o Log2Range((lo + hi) \div 2 + 1, hi)

\* the values of Log2Digits, computed once
Log2Table == Log2Range(1, 16383)

Log2Fix(x) == Log2Table[x]

(* ---------- metric functions ---------- *)

\* sum over the distinct characters c of count(c) * (log2(total) - log2(count(c)))
RECURSIVE EntropySum(_, _, _)
EntropySum(t, S, total) ==
    IF S = {} THEN 0
    ELSE LET c == CHOOSE x \in S : TRUE
             count == CountIn(t, {c})
         IN  count * (Log2Fix(total) - Log2Fix(count))
               + EntropySum(t, S \ {c}, total)

\* the entropy in bits is num / den
shannon_entropy(text) ==
    IF text = <<>> THEN [num |-> 0, den |-> 1]
    ELSE LET total == StrLen(text)
         IN  [num |-> EntropySum(text, CharsOf(text), total), den |-> 256 * total]

\* is_non_ascii_heavy with >= in place of >
is_non_ascii_heavy_at_least(text, threshold_ratio) ==
    IF text = <<>> THEN FALSE
    ELSE LET non_ascii == CountIn(text, CharsOf(text) \ (0..ASCII_MAX))
         IN  non_ascii * threshold_ratio.den >= threshold_ratio.num * StrLen(text)

is_non_ascii_heavy(text, threshold_ratio) ==
    IF text = <<>> THEN FALSE
    ELSE LET non_ascii == CountIn(text, CharsOf(text) \ (0..ASCII_MAX))
         IN  non_ascii * threshold_ratio.den > threshold_ratio.num * StrLen(text)

\* the density is num / den
punctuation_density(text) ==
    IF text = <<>> THEN [num |-> 0, den |-> 1]
    ELSE [num |-> CountIn(text, Punctuation), den |-> StrLen(text)]

newline_count(text) == CountIn(text, {LF})

\* a < b for fractions with positive denominators
FracLess(a, b) == a.num * b.den < b.num * a.den

\* re.compile(r"[\ufb01\ufb02]").search(text) is not None
ligature_pattern(text) == \E i \in DOMAIN text : text[i].ch \in {LIG_FI, LIG_FL}

\* re.compile(r"[\ufffd]").search(text) is not None
replacement_char_pattern(text) ==
    \E i \in DOMAIN text : text[i].ch = REPLACEMENT_CHAR

\* re.compile(r"-\n").search(text) is not None
hyphen_break_pattern(text) ==
    \E i \in DOMAIN text :
        /\ text[i].ch = HYPHEN
        /\ i + 1 \in DOMAIN text
        /\ text[i + 1].ch = LF

(* ---------- the texts the collections are drawn from ---------- *)

T_empty == <<>>
\* "aaaa"
T_a4 == <<Run(97, 4)>>
\* "aaaab"
T_ab5 == <<Run(97, 4), Run(98, 1)>>
\* 48 x "a" + "."  and  49 x "a" + "."
T_49 == <<Run(97, VERY_SHORT - 2), Run(46, 1)>>
T_50 == <<Run(97, VERY_SHORT - 1), Run(46, 1)>>
\* 300 x "a"  and  301 x "a"
T_300 == <<Run(97, LONG_TEXT)>>
T_301 == <<Run(97, LONG_TEXT + 1)>>
\* 999 x "a" + "."  and  1000 x "a" + "."
T_1000p == <<Run(97, LowPunct.den - 1), Run(46, 1)>>
T_1001p == <<Run(97, LowPunct.den), Run(46, 1)>>
\* 7999 x "a" + "."  and  8000 x "a" + "."
T_8000 == <<Run(97, VERY_LONG - 1), Run(46, 1)>>
T_8001 == <<Run(97, VERY_LONG), Run(46, 1)>>
\* "aabbcdef" (entropy exactly 2.5), "abcdefgh" (3.0), "aaabcdef" (about 2.41)
T_tie == <<Run(97, 2), Run(98, 2), Run(99, 1), Run(100, 1), Run(101, 1), Run(102, 1)>>
T_hi == <<Run(97, 1), Run(98, 1), Run(99, 1), Run(100, 1), Run(101, 1),
          Run(102, 1), Run(103, 1), Run(104, 1)>>
T_lo == <<Run(97, 3), Run(98, 1), Run(99, 1), Run(100, 1), Run(101, 1), Run(102, 1)>>
\* both ligatures around 30 x "a" (2 of 32 characters are non-ASCII)
T_lig == <<Run(LIG_FI, 1), Run(97, 30), Run(LIG_FL, 1)>>
\* one ligature, then 39 x "a"  (1 of 40)
T_fi == <<Run(LIG_FI, 1), Run(97, 39)>>
\* the replacement character 3 times, then 17 x "a"  (3 of 20)
T_rep3 == <<Run(REPLACEMENT_CHAR, 3), Run(97, 17)>>
\* the replacement character once, then 19 x "a"  (1 of 20, exactly 0.05)
T_rep1 == <<Run(REPLACEMENT_CHAR, 1), Run(97, 19)>>
\* "a-\nb"  and  "a\n-b"
T_hyph == <<Run(97, 1), Run(HYPHEN, 1), Run(LF, 1), Run(98, 1)>>
T_nohyph == <<Run(97, 1), Run(LF, 1), Run(HYPHEN, 1), Run(98, 1)>>
\* "cafe naive" with e-acute and i-diaeresis
T_cafe == <<Run(99, 1), Run(97, 1), Run(102, 1), Run(233, 1), Run(SPACE, 1),
            Run(110, 1), Run(97, 1), Run(239, 1), Run(118, 1), Run(101, 1)>>
\* 30 and 31 newlines, then 60 x "a" and "."
T_nl30 == <<Run(LF, MANY_NEWLINES), Run(97, 60), Run(46, 1)>>
T_nl31 == <<Run(LF, MANY_NEWLINES + 1), Run(97, 60), Run(46, 1)>>
\* "ab\n" + 150 x "c"
T_wide == <<Run(97, 1), Run(98, 1), Run(LF, 1), Run(99, 150)>>

Texts == {T_empty, T_a4, T_ab5, T_49, T_50, T_300, T_301, T_1000p, T_1001p,
          T_8000, T_8001, T_tie, T_hi, T_lo, T_lig, T_fi, T_rep3, T_rep1, T_hyph,
          T_nohyph, T_cafe, T_nl30, T_nl31, T_wide}

Contents == {None} \cup {Str(t) : t \in Texts}

\* the contents of the collections that are enumerated exhaustively
CoreContents == {None, Str(T_empty), Str(T_a4), Str(T_hyph), Str(T_8001)}

\* every collection of at most MaxDocs documents with a content of
\* CoreContents, and every collection of one document
SmallCollections ==
    UNION {[1..n -> {Document(c) : c \in CoreContents}] : n \in 0..MaxDocs}
    \cup {<<Document(c)>> : c \in Contents}

\* collections of MaxPatternDocs - 1 or MaxPatternDocs documents: b at every
\* k-th position and a elsewhere
PatternCollections ==
    {[i \in 1..n |-> Document(IF i % k = 0 THEN b ELSE a)] :
        a \in Contents, b \in Contents, k \in 2..3,
        n \in (MaxPatternDocs - 1)..MaxPatternDocs}

\* the contents that the repetition collections repeat
DupKeys == <<Str(T_hyph), None, Str(T_empty), Str(T_wide), Str(T_a4), Str(T_tie),
             Str(T_50)>>

RepCounts == {0} \cup (REPEAT_MIN..MaxRep)

RECURSIVE Blocks(_, _)
Blocks(m, j) ==
    IF j > Len(DupKeys) THEN <<>>
    ELSE [i \in 1..m[j] |-> Document(DupKeys[j])] \o Blocks(m, j + 1)

\* collections made of a block of copies of each key: any count in RepCounts
\* for the first two keys, none or REPEAT_MIN + 1 copies of the others
RepetitionCollections ==
    {Blocks(m, 1) :
        m \in {f \in [1..Len(DupKeys) -> RepCounts] :
                  \A j \in 3..Len(DupKeys) : f[j] \in {0, REPEAT_MIN + 1}}}

Inputs == SmallCollections \cup PatternCollections \cup RepetitionCollections

(* ---------- printed lines ---------- *)

Line(stage, kind, val, idxs, txt) ==
    [stage |-> stage, kind |-> kind, val |-> val, idxs |-> idxs, txt |-> txt]

Msg(stage, kind) == Line(stage, kind, 0, <<>>, <<>>)

\* [i for i, x in enumerate(xs) if P(x)], given the set S of 1-based positions
\* that satisfy P: the 0-based positions in ascending order
RECURSIVE IndicesFrom(_, _, _)
IndicesFrom(S, i, n) ==
    IF i > n THEN <<>>
    ELSE (IF i \in S THEN <<i - 1>> ELSE <<>>) \o IndicesFrom(S, i + 1, n)

\* xs[:k]
Take(xs, k) == SubSeq(xs, 1, IF Len(xs) < k THEN Len(xs) ELSE k)

\* the warning line of a flagged-index list: its length and its first examples
Flagged(stage, kind, indices) ==
    Line(stage, kind, Len(indices), Take(indices, EXAMPLES), <<>>)

(* ---------- list helpers of the report pass ---------- *)

RECURSIVE SumSeq(_)
SumSeq(xs) == IF xs = <<>> THEN 0 ELSE Head(xs) + SumSeq(Tail(xs))

MinSeq(xs) == CHOOSE x \in {xs[i] : i \in DOMAIN xs} : \A j \in DOMAIN xs : x <= xs[j]

MaxSeq(xs) == CHOOSE x \in {xs[i] : i \in DOMAIN xs} : \A j \in DOMAIN xs : x >= xs[j]

\* insert x into the ascending list xs
RECURSIVE InsertAsc(_, _)
InsertAsc(xs, x) ==
    IF xs = <<>> THEN <<x>>
    ELSE IF x < Head(xs) THEN <<x>> \o xs
    ELSE <<Head(xs)>> \o InsertAsc(Tail(xs), x)

RECURSIVE Sorted(_)
Sorted(xs) == IF xs = <<>> THEN <<>> ELSE InsertAsc(Sorted(Tail(xs)), Head(xs))

\* statistics.median(xs) as printed with one decimal, in tenths
Median10(xs) ==
    LET s == Sorted(xs)
        n == Len(s)
    IN  IF n % 2 = 1 THEN 10 * s[(n + 1) \div 2]
        ELSE 5 * (s[n \div 2] + s[n \div 2 + 1])

\* sum(xs) / len(xs) as printed with one decimal, in tenths.  A mean that
\* lies exactly between two tenths, (2q + 1) / 20, is a double when 5 divides
\* 2q + 1 and is then rounded to the even tenth; otherwise the printed digit
\* depends on the rounding of the quotient to a double: both are possible
\* outcomes.
Avg10(xs) ==
    LET q == (10 * SumSeq(xs)) \div Len(xs)
        r == (10 * SumSeq(xs)) % Len(xs)
    IN  IF 2 * r < Len(xs) THEN {q}
        ELSE IF 2 * r > Len(xs) THEN {q + 1}
        ELSE IF (2 * q + 1) % 5 = 0 THEN {IF q % 2 = 0 THEN q ELSE q + 1}
        ELSE {q, q + 1}

(* ---------- collections.Counter and sorted ---------- *)

\* the keys of Counter(xs), in order of first occurrence
RECURSIVE CounterKeys(_, _)
CounterKeys(xs, seen) ==
    IF xs = <<>> THEN <<>>
    ELSE IF Head(xs) \in seen THEN CounterKeys(Tail(xs), seen)
    ELSE <<Head(xs)>> \o CounterKeys(Tail(xs), seen \cup {Head(xs)})

Occurrences(xs, x) == Cardinality({i \in DOMAIN xs : xs[i] = x})

\* Counter(xs).items(): pairs [txt, c]
CounterItems(xs) ==
    LET keys == CounterKeys(xs, {})
    IN  [i \in DOMAIN keys |-> [txt |-> keys[i], c |-> Occurrences(xs, keys[i])]]

\* Repeated with c >= 3 in place of c > 3
RepeatedFromThree(items) == SelectSeq(items, LAMBDA it : it.c >= REPEAT_MIN)

\* [(txt, c) for txt, c in items if c > 3]
Repeated(items) == SelectSeq(items, LAMBDA it : it.c > REPEAT_MIN)

\* insert it behind every entry whose count is at least as large
RECURSIVE InsertByCount(_, _)
InsertByCount(xs, it) ==
    IF xs = <<>> THEN <<it>>
    ELSE IF Head(xs).c < it.c THEN <<it>> \o xs
    ELSE <<Head(xs)>> \o InsertByCount(Tail(xs), it)

\* sorted(items, key=lambda x: -x[1]): descending by count, stable
RECURSIVE SortByCount(_, _)
SortByCount(acc, items) ==
    IF items = <<>> THEN acc
    ELSE SortByCount(InsertByCount(acc, Head(items)), Tail(items))

\* txt.replace("\n", " ")[:120]
Preview(txt) == Slice(Replace(txt, LF, SPACE), PREVIEW_LEN)

\* the position of the first entry whose text is None, 0 when there is none
FirstNone(entries) ==
    IF \E i \in DOMAIN entries : entries[i].txt.none
    THEN CHOOSE i \in DOMAIN entries :
            /\ entries[i].txt.none
            /\ \A j \in 1..(i - 1) : ~entries[j].txt.none
    ELSE 0

(* ---------- state ---------- *)

Contents_of(ds) == [i \in DOMAIN ds |-> ds[i].page_content]

Texts_of(ds) == [i \in DOMAIN ds |-> OrEmpty(ds[i].page_content)]

NoCall == [text |-> <<>>, threshold_ratio |-> DefaultThresholdRatio, ret |-> FALSE]

Init ==
    /\ docs \in Inputs
    /\ pc = "start"
    /\ out = <<>>
    /\ err = "none"
    /\ lengths = <<>>
    /\ idx = 0
    /\ ligature_hits = 0
    /\ replacement_hits = 0
    /\ hyphen_break_hits = 0
    /\ non_ascii_heavy_hits = 0
    /\ call = NoCall

scan == <<idx, ligature_hits, replacement_hits, hyphen_break_hits,
          non_ascii_heavy_hits>>

(* ---------- validate_docs ---------- *)

\* print("\n========== CLEANLINESS VALIDATION ==========")
PrintHeader ==
    /\ pc = "start"
    /\ out' = Append(out, Msg("HEADER", "banner"))
    /\ pc' = "check"
    /\ UNCHANGED <<docs, err, lengths, scan, call>>

\* WarnEmpty without its return: the pass goes on to min() of an empty list,
\* which raises ValueError
WarnEmptyNoReturn ==
    /\ pc = "check"
    /\ docs = <<>>
    /\ out' = Append(out, Msg("EMPTY", "no_documents"))
    /\ pc' = "raised"
    /\ err' = "ValueError"
    /\ UNCHANGED <<docs, lengths, scan, call>>

\* if not docs: print the warning and return
WarnEmpty ==
    /\ pc = "check"
    /\ docs = <<>>
    /\ out' = Append(out, Msg("EMPTY", "no_documents"))
    /\ pc' = "done"
    /\ UNCHANGED <<docs, err, lengths, scan, call>>

\* [i for i, x in enumerate(xs) if P(x)], given flags[i] = P(xs[i])
Indices(flags) == IndicesFrom({i \in DOMAIN flags : flags[i]}, 1, Len(flags))

\* a warning that is printed only when its index list is not empty
WarnIf(stage, kind, indices) ==
    IF indices # <<>> THEN <<Flagged(stage, kind, indices)>> ELSE <<>>

\* IsVeryShort with <= in place of <
IsVeryShortOrEqual(L) == L <= VERY_SHORT

IsVeryShort(L) == L < VERY_SHORT

IsVeryLong(L) == L > VERY_LONG

IsNearEmpty(L) == L < NEAR_EMPTY

\* lengths = [len(d.page_content or "") for d in docs]
LengthsOf(ds) == [i \in DOMAIN ds |-> StrLen(OrEmpty(ds[i].page_content))]

\* the lines of the basic length stats and the very short / very long flags
LengthReport(ls, avg) ==
    << Msg("STATS", "heading"),
       Line("STATS", "count", Len(ls), <<>>, <<>>),
       Line("STATS", "min", MinSeq(ls), <<>>, <<>>),
       Line("STATS", "max", MaxSeq(ls), <<>>, <<>>),
       Line("STATS", "avg", avg, <<>>, <<>>),
       Line("STATS", "median", Median10(ls), <<>>, <<>>) >>
    \o WarnIf("STATS", "very_short", Indices([i \in DOMAIN ls |-> IsVeryShort(ls[i])]))
    \o WarnIf("STATS", "very_long", Indices([i \in DOMAIN ls |-> IsVeryLong(ls[i])]))

\* LengthStats that also prints the empty / near-empty flag with the other
\* length flags
LengthStatsWithNearEmpty ==
    /\ pc = "check"
    /\ docs # <<>>
    /\ lengths' = LengthsOf(docs)
    /\ \E avg \in Avg10(LengthsOf(docs)) :
          out' = out \o LengthReport(LengthsOf(docs), avg)
                     \o WarnIf("EMPTY_CHUNKS", "near_empty",
                               Indices([i \in DOMAIN docs |->
                                          IsNearEmpty(LengthsOf(docs)[i])]))
    /\ pc' = "duplicates"
    /\ UNCHANGED <<docs, err, scan, call>>

LengthStats ==
    /\ pc = "check"
    /\ docs # <<>>
    /\ lengths' = LengthsOf(docs)
    /\ \E avg \in Avg10(LengthsOf(docs)) :
          out' = out \o LengthReport(LengthsOf(docs), avg)
    /\ pc' = "duplicates"
    /\ UNCHANGED <<docs, err, scan, call>>

\* the lines of the duplicate check for the list of page_content values, and
\* whether it raises: Counter over d.page_content, the texts repeated more
\* than 3 times, the 5 most repeated with a preview.  txt.replace raises
\* AttributeError when txt is None, after the lines before it are printed.
DuplicateReport(contents) ==
    LET repeated == Repeated(CounterItems(contents))
        top == Take(SortByCount(<<>>, repeated), TOP_REPEATED)
        bad == FirstNone(top)
        shown == IF bad = 0 THEN top ELSE SubSeq(top, 1, bad - 1)
    IN  [lines |-> <<Msg("DUPLICATES", "heading")>> \o
                   (IF repeated = <<>>
                    THEN <<Msg("DUPLICATES", "none_repeated")>>
                    ELSE << Line("DUPLICATES", "found", Len(repeated), <<>>, <<>>),
                            Msg("DUPLICATES", "boilerplate") >>
                         \o [i \in DOMAIN shown |->
                               Line("DUPLICATES", "repeat", shown[i].c, <<i>>,
                                    Preview(shown[i].txt.text))]),
         raises |-> bad # 0]

Duplicates ==
    /\ pc = "duplicates"
    /\ LET report == DuplicateReport(Contents_of(docs))
       IN  /\ out' = out \o report.lines
           /\ pc' = IF report.raises THEN "raised" ELSE "entropy"
           /\ err' = IF report.raises THEN "AttributeError" ELSE err
    /\ UNCHANGED <<docs, lengths, scan, call>>

\* IsLowEntropy without e > 0
IsLowEntropyWithZero(e) == FracLess(e, LowEntropy)

\* e > 0 and e < 2.5
IsLowEntropy(e) == e.num > 0 /\ FracLess(e, LowEntropy)

\* the lines of the entropy analysis for the list of texts
EntropyReport(texts) ==
    LET entropies == [i \in DOMAIN texts |-> shannon_entropy(texts[i])]
        low_entropy_indices == Indices([i \in DOMAIN texts |-> IsLowEntropy(entropies[i])])
    IN  <<Msg("ENTROPY", "heading")>> \o
        (IF low_entropy_indices # <<>>
         THEN <<Flagged("ENTROPY", "low_entropy", low_entropy_indices)>>
         ELSE <<Msg("ENTROPY", "none_low")>>)

EntropyScan ==
    /\ pc = "entropy"
    /\ out' = out \o EntropyReport(Texts_of(docs))
    /\ pc' = "chars"
    /\ UNCHANGED <<docs, err, lengths, scan, call>>

\* the heading of the character checks and the four counters set to 0
CharScanBegin ==
    /\ pc = "chars"
    /\ out' = Append(out, Msg("CHARS", "heading"))
    /\ ligature_hits' = 0
    /\ replacement_hits' = 0
    /\ hyphen_break_hits' = 0
    /\ non_ascii_heavy_hits' = 0
    /\ idx' = 1
    /\ pc' = "chars_loop"
    /\ UNCHANGED <<docs, err, lengths, call>>

\* hits += 1 under  if hit
Bump(hits, hit) == IF hit THEN hits + 1 ELSE hits

\* CharScanStep with the replacement counter raised by the number of
\* occurrences in the document
CharScanStepCountsOccurrences ==
    /\ pc = "chars_loop"
    /\ idx <= Len(docs)
    /\ LET text == OrEmpty(docs[idx].page_content)
       IN  /\ ligature_hits' = Bump(ligature_hits, ligature_pattern(text))
           /\ replacement_hits' = replacement_hits + CountIn(text, {REPLACEMENT_CHAR})
           /\ hyphen_break_hits' = Bump(hyphen_break_hits, hyphen_break_pattern(text))
           /\ non_ascii_heavy_hits' =
                 Bump(non_ascii_heavy_hits, is_non_ascii_heavy(text, DefaultThresholdRatio))
    /\ idx' = idx + 1
    /\ UNCHANGED <<docs, pc, out, err, lengths, call>>

\* one iteration of  for d in docs
CharScanStep ==
    /\ pc = "chars_loop"
    /\ idx <= Len(docs)
    /\ LET text == OrEmpty(docs[idx].page_content)
       IN  /\ ligature_hits' = Bump(ligature_hits, ligature_pattern(text))
           /\ replacement_hits' = Bump(replacement_hits, replacement_char_pattern(text))
           /\ hyphen_break_hits' = Bump(hyphen_break_hits, hyphen_break_pattern(text))
           /\ non_ascii_heavy_hits' =
                 Bump(non_ascii_heavy_hits, is_non_ascii_heavy(text, DefaultThresholdRatio))
    /\ idx' = idx + 1
    /\ UNCHANGED <<docs, pc, out, err, lengths, call>>

HitLine(kind, hits) ==
    IF hits # 0 THEN <<Line("CHARS", kind, hits, <<>>, <<>>)>> ELSE <<>>

\* the lines printed after the loop, for the four counters
CharsReport(lig, rep, hyph, heavy) ==
    HitLine("ligature", lig)
    \o HitLine("replacement", rep)
    \o HitLine("hyphen_break", hyph)
    \o HitLine("non_ascii_heavy", heavy)
    \o (IF ~(lig # 0 \/ rep # 0 \/ hyph # 0 \/ heavy # 0)
        THEN <<Msg("CHARS", "no_issues")>> ELSE <<>>)

CharScanReport ==
    /\ pc = "chars_loop"
    /\ idx > Len(docs)
    /\ out' = out \o CharsReport(ligature_hits, replacement_hits,
                                 hyphen_break_hits, non_ascii_heavy_hits)
    /\ pc' = "structure"
    /\ UNCHANGED <<docs, err, lengths, scan, call>>

IsManyNewlines(n) == n > MANY_NEWLINES

\* L > 300 and dens < 0.001, for a pair <<dens, L>> of zip(punct_densities, lengths)
IsLowPunct(p) == p[2] > LONG_TEXT /\ FracLess(p[1], LowPunct)

\* the lines of the newline and punctuation diagnostics
StructureReport(texts, ls) ==
    LET newline_counts == [i \in DOMAIN texts |-> newline_count(texts[i])]
        punct_densities == [i \in DOMAIN texts |-> punctuation_density(texts[i])]
        zipped == [i \in DOMAIN texts |-> <<punct_densities[i], ls[i]>>]
        low_punct_indices == Indices([i \in DOMAIN texts |-> IsLowPunct(zipped[i])])
    IN  <<Msg("STRUCTURE", "heading")>>
        \o WarnIf("STRUCTURE", "many_newlines",
                  Indices([i \in DOMAIN texts |-> IsManyNewlines(newline_counts[i])]))
        \o (IF low_punct_indices # <<>>
            THEN <<Flagged("STRUCTURE", "low_punct", low_punct_indices)>>
            ELSE <<Msg("STRUCTURE", "punct_normal")>>)

StructureScan ==
    /\ pc = "structure"
    /\ out' = out \o StructureReport(Texts_of(docs), lengths)
    /\ pc' = "empty_chunks"
    /\ UNCHANGED <<docs, err, lengths, scan, call>>

\* empty / near-empty chunks
EmptyChunks ==
    /\ pc = "empty_chunks"
    /\ out' = out \o WarnIf("EMPTY_CHUNKS", "near_empty",
                            Indices([i \in DOMAIN lengths |-> IsNearEmpty(lengths[i])]))
    /\ pc' = "closing"
    /\ UNCHANGED <<docs, err, lengths, scan, call>>

ClosingReport ==
    << Msg("CLOSING", "complete"), Msg("CLOSING", "interpretation"),
       Msg("CLOSING", "note_warnings"), Msg("CLOSING", "note_repeated"),
       Msg("CLOSING", "note_ocr"), Msg("CLOSING", "note_lengths") >>

\* the closing banner and the interpretation note
Closing ==
    /\ pc = "closing"
    /\ out' = out \o ClosingReport
    /\ pc' = "done"
    /\ UNCHANGED <<docs, err, lengths, scan, call>>

Next ==
    \/ PrintHeader
    \/ WarnEmpty
    \/ LengthStats
    \/ Duplicates
    \/ EntropyScan
    \/ CharScanBegin
    \/ CharScanStep
    \/ CharScanReport
    \/ StructureScan
    \/ EmptyChunks
    \/ Closing

Spec == Init /\ [][Next]_vars

(* ---------- is_non_ascii_heavy called on its own ---------- *)

\* a x "a", then d x DEL (code point 127), then b x the character 128
HeavyText(a, d, b) ==
    (IF a > 0 THEN <<Run(97, a)>> ELSE <<>>)
    \o (IF d > 0 THEN <<Run(ASCII_MAX, d)>> ELSE <<>>)
    \o (IF b > 0 THEN <<Run(ASCII_MAX + 1, b)>> ELSE <<>>)

\* threshold ratios k/20 (0.05 is 1/20, 0.5 is 10/20) and 2/9
Thresholds == {[num |-> k, den |-> 20] : k \in 0..20} \cup {[num |-> 2, den |-> 9]}

InitCall ==
    /\ docs = <<>>
    /\ pc = "idle"
    /\ out = <<>>
    /\ err = "none"
    /\ lengths = <<>>
    /\ idx = 0
    /\ ligature_hits = 0
    /\ replacement_hits = 0
    /\ hyphen_break_hits = 0
    /\ non_ascii_heavy_hits = 0
    /\ call = NoCall

CallIsNonAsciiHeavy(text, threshold_ratio) ==
    /\ pc = "idle"
    /\ call' = [text |-> text, threshold_ratio |-> threshold_ratio,
                ret |-> is_non_ascii_heavy(text, threshold_ratio)]
    /\ pc' = "returned"
    /\ UNCHANGED <<docs, out, err, lengths, scan>>

NextCall ==
    \E a \in 0..MaxAscii, d \in 0..1, b \in 0..MaxNonAscii, thr \in Thresholds :
        CallIsNonAsciiHeavy(HeavyText(a, d, b), thr)

SpecCall == InitCall /\ [][NextCall]_vars

(* ---------- what the properties are stated with ---------- *)

StageLines(stage) == SelectSeq(out, LAMBDA l : l.stage = stage)

KindLines(kind) == SelectSeq(out, LAMBDA l : l.kind = kind)

Printed(kind) == \E i \in DOMAIN out : out[i].kind = kind

Ran(stage) == \E i \in DOMAIN out : out[i].stage = stage

Finished == pc \in {"done", "raised"}

TextAt(i) == OrEmpty(docs[i].page_content)

MinOf(a, b) == IF a < b THEN a ELSE b

\* xs lists, in ascending order and 0-based, the first 10 members of the set
\* S of 1-based positions
FirstExamplesOf(xs, S) ==
    /\ Len(xs) = MinOf(10, Cardinality(S))
    /\ \A i \in DOMAIN xs : xs[i] + 1 \in S
    /\ \A i, j \in DOMAIN xs : i < j => xs[i] < xs[j]
    /\ \A i \in DOMAIN xs : \A p \in S : p < xs[i] + 1 => \E j \in 1..i : xs[j] + 1 = p

\* the warning of the given kind is printed exactly when S is not empty, once,
\* with the size of S and its first examples
WarnedExactly(kind, S) ==
    /\ Printed(kind) <=> S # {}
    /\ Len(KindLines(kind)) <= 1
    /\ \A i \in DOMAIN out :
          out[i].kind = kind =>
              /\ out[i].val = Cardinality(S)
              /\ FirstExamplesOf(out[i].idxs, S)

(* ---------- C1 ---------- *)

\* C1: for every non-empty collection, documents with absent content
\* included, validate_docs raises no error in any stage, and a finished run
\* ends with the closing interpretation note.
C1_NeverRaises ==
    docs # <<>> =>
        /\ err = "none"
        /\ pc # "raised"
        /\ Finished => (out # <<>> /\ out[Len(out)] = Msg("CLOSING", "note_lengths"))

(* ---------- C2 ---------- *)

\* the collection with every absent content replaced by ""
Normalized(ds) == [i \in DOMAIN ds |-> Document(Str(OrEmpty(ds[i].page_content)))]

\* C2: the report is the report of the same collection with each absent
\* content replaced by "": every stage that has printed has printed the lines
\* that it prints for the normalized collection.
C2_AbsentIsEmpty ==
    LET norm == Normalized(docs)
        ls == LengthsOf(norm)
        texts == Texts_of(norm)
        hits(P(_)) == Cardinality({i \in DOMAIN texts : P(texts[i])})
    IN  /\ Ran("STATS") =>
              \E avg \in Avg10(ls) : StageLines("STATS") = LengthReport(ls, avg)
        /\ Ran("DUPLICATES") =>
              StageLines("DUPLICATES") = DuplicateReport(Contents_of(norm)).lines
        /\ Ran("ENTROPY") => StageLines("ENTROPY") = EntropyReport(texts)
        /\ Ran("CHARS") /\ pc # "chars_loop" =>
              StageLines("CHARS") =
                  <<Msg("CHARS", "heading")>> \o
                  CharsReport(hits(ligature_pattern), hits(replacement_char_pattern),
                              hits(hyphen_break_pattern),
                              hits(LAMBDA t : is_non_ascii_heavy(t, DefaultThresholdRatio)))
        /\ Ran("STRUCTURE") => StageLines("STRUCTURE") = StructureReport(texts, ls)
        /\ pc = "closing" \/ Ran("CLOSING") =>
              StageLines("EMPTY_CHUNKS") =
                  WarnIf("EMPTY_CHUNKS", "near_empty",
                         Indices([i \in DOMAIN ls |-> IsNearEmpty(ls[i])]))

(* ---------- C3 ---------- *)

\* C3: given an empty collection, validate_docs prints the banner and exactly
\* one warning line and nothing else, computes no length statistic and no
\* counter, and returns without raising.
C3_EmptyCollection ==
    docs = <<>> =>
        /\ err = "none"
        /\ pc \in {"start", "check", "done"}
        /\ lengths = <<>>
        /\ idx = 0
        /\ Len(KindLines("no_documents")) = (IF pc = "done" THEN 1 ELSE 0)
        /\ \A i \in DOMAIN out : out[i].stage \in {"HEADER", "EMPTY"}
        /\ pc = "done" => out = <<Msg("HEADER", "banner"), Msg("EMPTY", "no_documents")>>

C3_Witness ==
    docs = <<>> /\ pc = "done" /\ Printed("no_documents")

(* ---------- C4 ---------- *)

RECURSIVE Power(_, _)
Power(a, b) == IF b = 0 THEN 1 ELSE a * Power(a, b - 1)

\* the product of count(c)^count(c) over the characters c in S
RECURSIVE CountPowers(_, _)
CountPowers(t, S) ==
    IF S = {} THEN 1
    ELSE LET c == CHOOSE x \in S : TRUE
         IN  Power(CountIn(t, {c}), CountIn(t, {c})) * CountPowers(t, S \ {c})

\* for a text of even length n <= 8: the entropy is below 2.5 exactly when
\* n^n < 2^(5n/2) * product of count^count
ExactlyBelowLowEntropy(t) ==
    LET n == StrLen(t)
    IN  Power(n, n) \div Pow2((5 * n) \div 2) < CountPowers(t, CharsOf(t))

\* C5: a document is in the low-entropy list exactly when its entropy e has
\* 0 < e < 2.5; an empty document and a document of one repeated character
\* have entropy 0 and are never flagged.
C5_LowEntropy ==
    Ran("ENTROPY") =>
        LET e(i) == shannon_entropy(TextAt(i))
            S == {i \in DOMAIN docs : e(i).num > 0 /\ 2 * e(i).num < 5 * e(i).den}
        IN  /\ WarnedExactly("low_entropy", S)
            /\ Printed("none_low") <=> S = {}
            /\ \A i \in DOMAIN docs :
                  Cardinality(CharsOf(TextAt(i))) <= 1 =>
                      /\ e(i).num = 0
                      /\ i \notin S
                      /\ \A k \in DOMAIN out :
                            out[k].kind = "low_entropy" =>
                                \A j \in DOMAIN out[k].idxs : out[k].idxs[j] # i - 1
            /\ \A i \in DOMAIN docs :
                  StrLen(TextAt(i)) \in {2, 4, 6, 8} =>
                      (i \in S <=> /\ Cardinality(CharsOf(TextAt(i))) > 1
                                   /\ ExactlyBelowLowEntropy(TextAt(i)))

\* a low-entropy warning is printed for a collection that also holds a
\* non-empty document of one repeated character
C5_Witness ==
    /\ Ran("ENTROPY")
    /\ Printed("low_entropy")
    /\ \E i \in DOMAIN docs :
          TextAt(i) # <<>> /\ Cardinality(CharsOf(TextAt(i))) = 1

(* ---------- C6 ---------- *)

HasLigature(t) == CountIn(t, {64257, 64258}) >= 1

HasReplacement(t) == CountIn(t, {65533}) >= 1

HasHyphenBreak(t) == \E i \in 1..(Len(t) - 1) : t[i].ch = 45 /\ t[i + 1].ch = 10

HasManyNonAscii(t) == 20 * (StrLen(t) - CountIn(t, 0..127)) > StrLen(t)

\* C6: each of the four counters is the number of scanned documents that
\* trip its detector (1 per document, whatever the number of occurrences),
\* so it lies between 0 and the collection size; after the scan a warning is
\* printed for exactly the non-zero counters and the 'no issues' line exactly
\* when all four are 0.
C6_CharCounters ==
    /\ ligature_hits \in 0..Len(docs)
    /\ replacement_hits \in 0..Len(docs)
    /\ hyphen_break_hits \in 0..Len(docs)
    /\ non_ascii_heavy_hits \in 0..Len(docs)
    /\ Ran("CHARS") =>
          LET k == IF pc = "chars_loop" THEN idx - 1 ELSE Len(docs)
              Tripping(P(_)) == Cardinality({i \in 1..k : P(TextAt(i))})
              counted(kind, hits) ==
                  /\ Printed(kind) <=> hits # 0
                  /\ KindLines(kind) \in {<<>>, <<Line("CHARS", kind, hits, <<>>, <<>>)>>}
          IN  /\ ligature_hits = Tripping(HasLigature)
              /\ replacement_hits = Tripping(HasReplacement)
              /\ hyphen_break_hits = Tripping(HasHyphenBreak)
              /\ non_ascii_heavy_hits = Tripping(HasManyNonAscii)
              /\ pc = "chars_loop" => out[Len(out)] = Msg("CHARS", "heading")
              /\ pc # "chars_loop" =>
                    /\ counted("ligature", ligature_hits)
                    /\ counted("replacement", replacement_hits)
                    /\ counted("hyphen_break", hyphen_break_hits)
                    /\ counted("non_ascii_heavy", non_ascii_heavy_hits)
                    /\ Printed("no_issues") <=>
                          /\ ligature_hits = 0
                          /\ replacement_hits = 0
                          /\ hyphen_break_hits = 0
                          /\ non_ascii_heavy_hits = 0

\* the scan is over, one document holds the replacement character three
\* times and the replacement counter is 1
C6_Witness ==
    /\ pc = "structure"
    /\ replacement_hits = 1
    /\ Printed("replacement")
    /\ \E i \in DOMAIN docs : CountIn(TextAt(i), {65533}) >= 3

(* ---------- C7 ---------- *)

\* C7: the very-short warning is printed exactly when some document has
\* length < 50 and the very-long warning exactly when some document has
\* length > 8000; each gives the number of such documents and the first 10 of
\* their positions in the collection, ascending.
C7_LengthFlags ==
    (Ran("STATS") \/ Finished) =>
        /\ WarnedExactly("very_short", {i \in DOMAIN docs : StrLen(TextAt(i)) < 50})
        /\ WarnedExactly("very_long", {i \in DOMAIN docs : StrLen(TextAt(i)) > 8000})

\* more than 10 documents are very short and the warning lists 10 of them
C7_Witness ==
    \E i \in DOMAIN out :
        /\ out[i].kind = "very_short"
        /\ out[i].val > 10
        /\ Len(out[i].idxs) = 10

(* ---------- C8 ---------- *)

\* C8: is_non_ascii_heavy(text, threshold) is true exactly when the text is
\* not empty and (characters above code point 127) / length > threshold; so it
\* is false for the empty text and false when the ratio equals the threshold.
C8_NonAsciiHeavy ==
    pc = "returned" =>
        \E a \in 0..MaxAscii, d \in 0..1, b \in 0..MaxNonAscii :
            /\ call.text = HeavyText(a, d, b)
            /\ call.ret <=>
                  /\ a + d + b > 0
                  /\ b * call.threshold_ratio.den
                        > call.threshold_ratio.num * (a + d + b)

\* 2 of 9 characters are non-ASCII: flagged at 0.05
C8_Witness ==
    /\ pc = "returned"
    /\ call.text = HeavyText(6, 1, 2)
    /\ call.threshold_ratio = [num |-> 1, den |-> 20]
    /\ call.ret

(* ---------- C9 ---------- *)

\* the place of a line in the order of the report when the empty /
\* near-empty flag belongs to the length statistics
RankWithStats(l) ==
    CASE l.stage = "HEADER" -> 0
      [] l.stage = "STATS" /\ l.kind = "heading" -> 10
      [] l.stage = "STATS" /\ l.kind = "count" -> 11
      [] l.stage = "STATS" /\ l.kind = "min" -> 12
      [] l.stage = "STATS" /\ l.kind = "max" -> 13
      [] l.stage = "STATS" /\ l.kind = "avg" -> 14
      [] l.stage = "STATS" /\ l.kind = "median" -> 15
      [] l.stage = "STATS" /\ l.kind = "very_short" -> 16
      [] l.stage = "STATS" /\ l.kind = "very_long" -> 17
      [] l.stage = "EMPTY_CHUNKS" -> 18
      [] l.stage = "DUPLICATES" -> 20
      [] l.stage = "ENTROPY" -> 30
      [] l.stage = "CHARS" -> 40
      [] l.stage = "STRUCTURE" -> 50
      [] l.stage = "CLOSING" -> 70
      [] OTHER -> 0

\* the same with the empty / near-empty flag between the structural section
\* and the closing note
RankBeforeClosing(l) == IF l.stage = "EMPTY_CHUNKS" THEN 60 ELSE RankWithStats(l)

AllSections ==
    \A stage \in {"STATS", "DUPLICATES", "ENTROPY", "CHARS", "STRUCTURE", "CLOSING"} :
        Ran(stage)

\* C9 as stated: the sections are printed in the order length statistics
\* (with the very-short, very-long and empty / near-empty flags), duplicates,
\* entropy, character artifacts, structure, closing note.
C9_OrderAsStated ==
    docs # <<>> =>
        /\ \A i, j \in DOMAIN out : i < j => RankWithStats(out[i]) <= RankWithStats(out[j])
        /\ pc = "done" => AllSections

\* C9 amended: the same order, except that the empty / near-empty flag is
\* printed after the structural section, right before the closing note.
C9_SectionOrder ==
    docs # <<>> =>
        /\ \A i, j \in DOMAIN out :
              i < j => RankBeforeClosing(out[i]) <= RankBeforeClosing(out[j])
        /\ pc = "done" => AllSections

\* a finished report with an empty / near-empty flag
C9_Witness ==
    docs # <<>> /\ pc = "done" /\ Printed("near_empty") /\ Printed("very_long")

(* ---------- C10 ---------- *)

\* C10: a document is flagged as low-punctuation exactly when its length is
\* > 300 and punctuation count / length < 0.001; and for every non-empty
\* collection exactly one of the low-punctuation warning (with the first 10
\* flagged positions) and the 'punctuation patterns look normal' line is
\* printed.
C10_LowPunctuation ==
    docs # <<>> =>
        LET S == {i \in DOMAIN docs :
                    /\ StrLen(TextAt(i)) > 300
                    /\ 1000 * CountIn(TextAt(i), Punctuation) < StrLen(TextAt(i))}
        IN  /\ Ran("STRUCTURE") =>
                  /\ WarnedExactly("low_punct", S)
                  /\ Printed("punct_normal") <=> S = {}
            /\ Finished => (Printed("low_punct") /\ ~Printed("punct_normal"))
                             \/ (~Printed("low_punct") /\ Printed("punct_normal"))

====
